---- MODULE Spec2Model ----
(***************************************************************************)
(* A model of the review ingestion pipeline of SteamPulse                  *)
(* (src/pipeline_reviews): the cursor paginator get_game_reviews, the      *)
(* fetch orchestrator get_all_reviews, the normalizer of transform.py, the *)
(* scorer of sentiment.py, the loader of load.py and the run of            *)
(* pipeline.py.                                                            *)
(***************************************************************************)
EXTENDS Integers, Sequences, FiniteSets, Bags, TLC

(* ------------------------------ bounds -------------------------------- *)

\* Number of items (games) handed to get_all_reviews.
NumItems == 2
\* Number of cursor values, besides the sentinel, the review source may return.
NumCursors == 2
\* Largest number of reviews the review source puts on one page.
MaxPageLen == 2
\* Number of loads (runs of the loading script) in one behaviour.
MaxLoads == 2
\* Largest number of rows in the data-frame handed to move_reviews_to_db.
MaxBatch == 2

(* ------------------------------ helpers ------------------------------- *)

Range(s) == {s[i] : i \in DOMAIN s}

RECURSIVE Flatten(_)
\* list.extend over a list of lists, in order.
Flatten(ss) == IF ss = <<>> THEN <<>> ELSE Head(ss) \o Flatten(Tail(ss))

NoDuplicates(s) == \A i, j \in DOMAIN s : i # j => s[i] # s[j]

(* ------------------------- the review source -------------------------- *)

\* A first cursor that is not the sentinel.
SentinelBlank == <<" ">>

\* Cursors are strings, modelled as sequences of characters.
Sentinel == <<"*">>

CursorPool == << <<"*">>, <<" ">>, <<"+">>, <<"a">>, <<"%">> >>

\* The cursor values a source with n non-sentinel cursors may return.
SourceCursors(n) == {CursorPool[i] : i \in 1..(n + 1)}

\* A plausible slip: "+" treated as safe, so that "+" and " " encode alike.
QuoteCharPlusSafe(c) ==
    CASE c = " " -> <<"+">>
      [] c = "+" -> <<"+">>
      [] c = "*" -> <<"%", "2", "A">>
      [] c = "%" -> <<"%", "2", "5">>
      [] OTHER   -> <<c>>

\* urllib.parse.quote_plus on one character: a space becomes "+", unreserved
\* characters stay, anything else is percent-encoded.
QuoteChar(c) ==
    CASE c = " " -> <<"+">>
      [] c = "+" -> <<"%", "2", "B">>
      [] c = "*" -> <<"%", "2", "A">>
      [] c = "%" -> <<"%", "2", "5">>
      [] OTHER   -> <<c>>

RECURSIVE quote_plus(_)
quote_plus(s) == IF s = <<>> THEN <<>> ELSE QuoteChar(Head(s)) \o quote_plus(Tail(s))

\* The j-th raw review object of the k-th page the source serves for a game.
RawReview(game, k, j) ==
    [review            |-> <<game, k, j>>,
     votes_up          |-> j,
     timestamp_created |-> 86400 * k + 3661 * j,
     author            |-> [playtime_forever |-> k + j]]

\* datetime.fromtimestamp(t).strftime("%Y-%m-%d %H:%M:%S"): the day (counted
\* from the epoch), then hours, minutes and seconds of the day.
FormatTimestamp(t) ==
    <<t \div 86400, (t % 86400) \div 3600, (t % 3600) \div 60, t % 60>>

\* review_dict of get_reviews_for_game.
ReviewDict(game_id, raw) ==
    [game_id               |-> game_id,
     review                |-> raw.review,
     review_score          |-> raw.votes_up,
     last_timestamp        |-> FormatTimestamp(raw.timestamp_created),
     playtime_last_2_weeks |-> raw.author.playtime_forever]

\* What the review-count endpoint may do with one request.
CountOutcomes ==
    {[kind |-> "ok", total_reviews |-> n] : n \in 0..1}
        \cup {[kind |-> "timeout"], [kind |-> "failed"], [kind |-> "malformed"]}

\* get_number_of_reviews: only requests.exceptions.Timeout is caught.
get_number_of_reviews(out) ==
    CASE out.kind = "ok"      -> [raised |-> FALSE, value |-> out.total_reviews]
      [] out.kind = "timeout" -> [raised |-> FALSE, value |-> 0]
      [] OTHER                -> [raised |-> TRUE]

\* What the review-page endpoint may do with one request: a page with a next
\* cursor and n raw reviews, a timeout, or a body lacking a field.
PageOutcomes(src) ==
    {[kind |-> "ok", cursor |-> c, n |-> n] : c \in src.cursors, n \in 0..src.maxLen}
        \cup {[kind |-> "timeout"], [kind |-> "malformed"]}

\* get_reviews_for_game, given what the endpoint did with the k-th request.
get_reviews_for_game(game_id, k, out) ==
    CASE out.kind = "timeout"   -> [kind |-> "error"]
      [] out.kind = "malformed" -> [kind |-> "raise"]
      [] OTHER ->
            [kind        |-> "page",
             next_cursor |-> out.cursor,
             reviews     |-> [j \in 1..out.n |-> ReviewDict(game_id, RawReview(game_id, k, j))]]

(* ------------------------------ state --------------------------------- *)

VARIABLES
    game_ids,          \* get_all_reviews: the items to fetch, in input order
    source,            \* the review source: the cursors and page sizes it serves
    pc,                \* per item: where its get_game_reviews call stands
    cursor,            \* per item: get_game_reviews' cursor
    cursor_list,       \* per item: get_game_reviews' cursor_list
    all_reviews,       \* per item: get_game_reviews' all_reviews (a list of pages)
    api_response,      \* per item: the last api_response of the loop
    count_outcome,     \* per item: what the review-count endpoint did (history)
    requests,          \* per item: the cursors sent to the review-page endpoint (history)
    received,          \* per item: the review lists of the pages received (history)
    phase,             \* get_all_reviews: "map", "done" or "raised"
    returned_reviews,  \* get_all_reviews: the rows of the returned data-frame
    store,             \* the review table: the bag of committed rows
    unique_key,        \* whether the review table declares its natural key unique
    conn,              \* the connection handed to move_reviews_to_db
    pending,           \* the rows inserted on conn and not committed
    reviews_df,        \* the data-frame handed to move_reviews_to_db
    load_pc,           \* "idle", "loading", "returned", "raised" or "reported"
    load_error,        \* the exception move_reviews_to_db let through
    loads,             \* the number of loads started (history)
    store_before,      \* the review table when the load started (history)
    prev_load,         \* the load before this one: its batch and outcome (history)
    norm_pc,           \* transform.py: the function to call next, "done" or "raised"
    norm_df,           \* transform.py: the data-frame the last function returned
    norm_in,           \* transform.py: the data-frame the last function was given
    norm_env,          \* transform.py: what correct_playtime met in the directory
    norm_error,        \* transform.py: the exception a function let through
    job_pc,            \* pipeline.py: the stage to run next, or "done"
    job_games,         \* pipeline.py: the rows of the directory query
    job_ids,           \* pipeline.py: game_ids
    job_df,            \* pipeline.py: reviews
    job_trace,         \* pipeline.py: the stages run so far (history)
    job_report,        \* pipeline.py: what the run told the operator
    job_swallowed,     \* pipeline.py: a directory error met inside a stage (history)
    job_store,         \* pipeline.py: the rows the run committed to the review table
    score_pc,          \* sentiment.py: the function to call next, or "done"
    score_in,          \* sentiment.py: the data-frame handed to the scoring stage
    score_df,          \* sentiment.py: the data-frame the last function returned
    score_lexicon,     \* sentiment.py: the compound score the analyser gives each text
    score_error,       \* sentiment.py: the exception a function let through
    fk_pc,             \* load.py: where the loader is
    fk_in,             \* load.py: the data-frame handed to the loader (history)
    fk_df,             \* load.py: reviews_df
    fk_values,         \* load.py: what get_game_ids returned for the rows so far
    fk_cache,          \* load.py: cache_dict
    fk_conn,           \* load.py: the state of the loader's and the run's connection
    fk_env,            \* load.py: the driver and the game table the loader meets
    fk_ops,            \* load.py: the database operations issued so far (history)
    fk_sent,           \* load.py: data_to_insert, once execute_batch was called
    fk_error,          \* load.py: the exception the loader let through
    fk_store           \* load.py: the rows committed to the review table

workerVars == <<pc, cursor, cursor_list, all_reviews, api_response,
                count_outcome, requests, received>>
fetchVars == <<game_ids, source, workerVars, phase, returned_reviews>>
loadVars == <<store, unique_key, conn, pending, reviews_df, load_pc, load_error,
              loads, store_before, prev_load>>

normVars == <<norm_pc, norm_df, norm_in, norm_env, norm_error>>
jobVars == <<job_pc, job_games, job_ids, job_df, job_trace, job_report,
             job_swallowed, job_store>>

scoreVars == <<score_pc, score_in, score_df, score_lexicon, score_error>>
fkVars == <<fk_pc, fk_in, fk_df, fk_values, fk_cache, fk_conn, fk_env, fk_ops, fk_sent,
            fk_error, fk_store>>

vars == <<fetchVars, loadVars, normVars, jobVars, scoreVars, fkVars>>

Workers == DOMAIN game_ids

Terminated(w) == pc[w] \in {"returned", "raised"}

(* ------------------------- get_game_reviews --------------------------- *)

\* A loop that never re-checks its cursor.
LoopGuardAlways(c, seen) == TRUE

\* The while condition: cursor not in cursor_list.
LoopGuard(c, seen) == c \notin Range(seen)

\* A check that looks at the cursor only.
StopsAfterPageRepeatOnly(page_reviews, next_cursor, seen) == next_cursor \in Range(seen)

\* if not page_reviews or cursor in cursor_list: return all_reviews
StopsAfterPage(page_reviews, next_cursor, seen) ==
    page_reviews = <<>> \/ next_cursor \in Range(seen)

\* The page appended before the check instead of after it.
AfterPageAppendFirst(reviews, response, seen) ==
    IF StopsAfterPage(response.reviews, response.next_cursor, seen)
    THEN [pc |-> "returned", all_reviews |-> Append(reviews, response.reviews)]
    ELSE [pc |-> "loop", all_reviews |-> Append(reviews, response.reviews)]

\* The loop body for a response without an error marker.
AfterPage(reviews, response, seen) ==
    IF StopsAfterPage(response.reviews, response.next_cursor, seen)
    THEN [pc |-> "returned", all_reviews |-> reviews]
    ELSE [pc |-> "loop", all_reviews |-> Append(reviews, response.reviews)]

\* An error marker that throws away what was collected.
AfterErrorDiscard(reviews) == <<>>

\* The loop body for a response with an error marker: nothing is assigned.
AfterError(reviews) == reviews

\* get_game_reviews up to the loop: the count request and the if.
GetGameReviewsStart(w) ==
    /\ phase = "map"
    /\ pc[w] = "start"
    /\ \E out \in CountOutcomes :
        LET number_of_total_reviews == get_number_of_reviews(out) IN
        /\ count_outcome' = [count_outcome EXCEPT ![w] = out]
        /\ all_reviews' = [all_reviews EXCEPT ![w] = <<>>]
        /\ IF number_of_total_reviews.raised
           THEN /\ pc' = [pc EXCEPT ![w] = "raised"]
                /\ UNCHANGED <<cursor, cursor_list>>
           ELSE IF number_of_total_reviews.value # 0
           THEN /\ pc' = [pc EXCEPT ![w] = "loop"]
                /\ cursor_list' = [cursor_list EXCEPT ![w] = <<>>]
                /\ cursor' = [cursor EXCEPT ![w] = Sentinel]
           ELSE /\ pc' = [pc EXCEPT ![w] = "returned"]
                /\ UNCHANGED <<cursor, cursor_list>>
    /\ UNCHANGED <<game_ids, source, api_response, requests, received,
                   phase, returned_reviews, loadVars, normVars, jobVars, scoreVars, fkVars>>

\* One iteration of the while loop.
GetGameReviewsPage(w) ==
    /\ phase = "map"
    /\ pc[w] = "loop"
    /\ LoopGuard(cursor[w], cursor_list[w])
    /\ \E out \in PageOutcomes(source) :
        LET seen     == Append(cursor_list[w], cursor[w])
            response == get_reviews_for_game(game_ids[w], Len(seen), out)
        IN
        /\ cursor_list' = [cursor_list EXCEPT ![w] = seen]
        /\ requests' = [requests EXCEPT ![w] = Append(@, quote_plus(cursor[w]))]
        /\ api_response' = [api_response EXCEPT ![w] = response]
        /\ CASE response.kind = "raise" ->
                  /\ pc' = [pc EXCEPT ![w] = "raised"]
                  /\ UNCHANGED <<cursor, all_reviews, received>>
             [] response.kind = "error" ->
                  /\ all_reviews' = [all_reviews EXCEPT ![w] = AfterError(@)]
                  /\ UNCHANGED <<pc, cursor, received>>
             [] OTHER ->
                  LET after == AfterPage(all_reviews[w], response, seen) IN
                  /\ cursor' = [cursor EXCEPT ![w] = response.next_cursor]
                  /\ received' = [received EXCEPT ![w] = Append(@, response.reviews)]
                  /\ all_reviews' = [all_reviews EXCEPT ![w] = after.all_reviews]
                  /\ pc' = [pc EXCEPT ![w] = after.pc]
    /\ UNCHANGED <<game_ids, source, count_outcome, phase, returned_reviews,
                   loadVars, normVars, jobVars, scoreVars, fkVars>>

\* The while condition found false: return all_reviews.
GetGameReviewsExit(w) ==
    /\ phase = "map"
    /\ pc[w] = "loop"
    /\ ~LoopGuard(cursor[w], cursor_list[w])
    /\ pc' = [pc EXCEPT ![w] = "returned"]
    /\ UNCHANGED <<game_ids, source, cursor, cursor_list, all_reviews, api_response,
                   count_outcome, requests, received, phase, returned_reviews,
                   loadVars, normVars, jobVars, scoreVars, fkVars>>

WorkerNext ==
    \E w \in Workers :
        \/ GetGameReviewsStart(w)
        \/ GetGameReviewsPage(w)
        \/ GetGameReviewsExit(w)

(* -------------------------- get_all_reviews --------------------------- *)

\* Only the first page of every item kept.
MergeFirstPages(reviews_data) ==
    Flatten([w \in DOMAIN reviews_data |->
                IF reviews_data[w] = <<>> THEN <<>> ELSE Head(reviews_data[w])])

\* The two extend loops: the items' page lists joined, then the pages joined.
Merge(reviews_data) == Flatten(Flatten(reviews_data))

\* A map that returns with the first result, the other workers running.
GetAllReviewsReturnsEarly ==
    /\ phase = "map"
    /\ \E w \in Workers : pc[w] = "returned"
    /\ returned_reviews' = Merge([w \in Workers |-> all_reviews[w]])
    /\ phase' = "done"
    /\ UNCHANGED <<game_ids, source, workerVars, loadVars, normVars, jobVars, scoreVars, fkVars>>

\* p.map has every result: the merge and the data-frame.
GetAllReviewsReturns ==
    /\ phase = "map"
    /\ \A w \in Workers : pc[w] = "returned"
    /\ returned_reviews' = Merge([w \in Workers |-> all_reviews[w]])
    /\ phase' = "done"
    /\ UNCHANGED <<game_ids, source, workerVars, loadVars, normVars, jobVars, scoreVars, fkVars>>

\* p.map re-raises a worker's exception once every task has ended.
GetAllReviewsRaises ==
    /\ phase = "map"
    /\ \A w \in Workers : Terminated(w)
    /\ \E w \in Workers : pc[w] = "raised"
    /\ phase' = "raised"
    /\ UNCHANGED <<game_ids, source, workerVars, returned_reviews,
                   loadVars, normVars, jobVars, scoreVars, fkVars>>


InitWorkers ==
    /\ pc = [w \in Workers |-> "start"]
    /\ cursor = [w \in Workers |-> <<>>]
    /\ cursor_list = [w \in Workers |-> <<>>]
    /\ all_reviews = [w \in Workers |-> <<>>]
    /\ api_response = [w \in Workers |-> [kind |-> "none"]]
    /\ count_outcome = [w \in Workers |-> [kind |-> "none"]]
    /\ requests = [w \in Workers |-> <<>>]
    /\ received = [w \in Workers |-> <<>>]
    /\ phase = "map"
    /\ returned_reviews = <<>>

(* ------------------------------ the loader ---------------------------- *)

\* The review rows a data-frame may hold after its leading index cell:
\* (game_id, review_text, review_score, review_date, playtime_at_review,
\* sentiment).  The first two are the same review seen with two up-vote
\* counts.
Payloads ==
    {<<1, "good", 1, <<19000, 12, 13, 10>>, 2, 45>>,
     <<1, "good", 0, <<19000, 12, 13, 10>>, 2, 45>>,
     <<1, "bad", 0, <<19001, 0, 0, 0>>, 3, 5>>}

\* reviews_df.values: every row led by the cell move_reviews_to_db drops (the
\* row's index), no two rows alike in every column.
DataFrames ==
    UNION {{[i \in 1..n |-> <<i - 1>> \o f[i]] :
                f \in {g \in [1..n -> Payloads] : NoDuplicates(g)}} : n \in 1..MaxBatch}

\* (game_id, review_text, playtime_at_review) of an inserted row.
NaturalKey(row) == <<row[1], row[2], row[5]>>

\* data_to_insert = [tuple(row[1:]) for row in reviews_df.values]
DataToInsert(df) == [i \in DOMAIN df |-> Tail(df[i])]

SeqToBag(rows) ==
    [r \in Range(rows) |-> Cardinality({i \in DOMAIN rows : rows[i] = r})]

\* The first row of data whose plain INSERT the review table rejects: with a
\* unique natural key, a row whose key is stored or was inserted before it in
\* the batch; 0 when none.
FirstConflict(table, unique, data) ==
    LET clash(i) ==
            /\ unique
            /\ \/ \E r \in BagToSet(table) : NaturalKey(r) = NaturalKey(data[i])
               \/ \E j \in 1..(i - 1) : NaturalKey(data[j]) = NaturalKey(data[i])
        hits == {i \in DOMAIN data : clash(i)}
    IN IF hits = {} THEN 0 ELSE CHOOSE i \in hits : \A j \in hits : i <= j

\* execute_batch of the INSERT (no ON CONFLICT clause) over data: the index
\* of the row it raises at and the error, or 0.  lost is the row at which
\* the database fails for a reason of its own (0: it does not).
ExecuteBatch(table, unique, data, lost) ==
    LET conflict == FirstConflict(table, unique, data) IN
    IF conflict # 0 /\ (lost = 0 \/ conflict <= lost)
    THEN [at |-> conflict, error |-> "UniqueViolation"]
    ELSE IF lost # 0 THEN [at |-> lost, error |-> "OperationalError"]
    ELSE [at |-> 0, error |-> "none"]

\* The script starts: get_db_connection() and the data-frame to load.
StartLoad ==
    /\ load_pc = "idle"
    /\ loads < MaxLoads
    /\ \E df \in DataFrames : reviews_df' = df
    /\ conn' = [closed |-> FALSE, txn |-> "idle"]
    /\ pending' = <<>>
    /\ load_error' = "none"
    /\ load_pc' = "loading"
    /\ loads' = loads + 1
    /\ store_before' = store
    /\ UNCHANGED <<fetchVars, normVars, jobVars, scoreVars, fkVars, store, unique_key, prev_load>>

\* move_reviews_to_db: execute_batch, commit, close.  An error of
\* execute_batch leaves the function at once: no commit, no rollback, no
\* close.
MoveReviewsToDb ==
    /\ load_pc = "loading"
    /\ \E lost \in 0..Len(reviews_df) :
        LET data_to_insert == DataToInsert(reviews_df)
            result == ExecuteBatch(store, unique_key, data_to_insert, lost)
        IN
        IF result.at = 0
        THEN /\ store' = store (+) SeqToBag(data_to_insert)
             /\ pending' = <<>>
             /\ conn' = [closed |-> TRUE, txn |-> "idle"]
             /\ load_pc' = "returned"
             /\ UNCHANGED load_error
        ELSE /\ pending' = SubSeq(data_to_insert, 1, result.at - 1)
             /\ conn' = [closed |-> FALSE, txn |-> "aborted"]
             /\ load_error' = result.error
             /\ load_pc' = "raised"
             /\ UNCHANGED store
    /\ UNCHANGED <<fetchVars, normVars, jobVars, scoreVars, fkVars,
                   unique_key, reviews_df, loads, store_before, prev_load>>

\* The caller's except Error clause prints the error (pipeline.py); a caller
\* without one (load.py) ends with the traceback.
ReportError ==
    /\ load_pc = "raised"
    /\ load_pc' = "reported"
    /\ UNCHANGED <<fetchVars, normVars, jobVars, scoreVars, fkVars,
                   store, unique_key, conn, pending, reviews_df,
                   load_error, loads, store_before, prev_load>>

\* The script ends: an open connection is dropped with the process, and the
\* database discards what was pending on it.
ProcessExit ==
    /\ load_pc \in {"returned", "reported"}
    /\ prev_load' = [batch |-> reviews_df, ok |-> load_pc = "returned", store_after |-> store]
    /\ conn' = [closed |-> TRUE, txn |-> "idle"]
    /\ pending' = <<>>
    /\ load_pc' = "idle"
    /\ UNCHANGED <<fetchVars, normVars, jobVars, scoreVars, fkVars,
                   store, unique_key, reviews_df, load_error, loads,
                   store_before>>

(* ============================ transform.py ============================ *)

MaxRows == 2

SecondsPerHour == 3600

\* A cell of a data-frame: a null, a number, a text, or a parsed datetime
\* (kept as its text).
NaN == [t |-> "nan", s |-> <<>>, n |-> 0]
Num(n) == [t |-> "num", s |-> <<>>, n |-> n]
Str(s) == [t |-> "str", s |-> s, n |-> 0]
Datetime(s) == [t |-> "time", s |-> s, n |-> 0]

Digits == <<"0", "1", "2", "3", "4", "5", "6", "7", "8", "9">>

IsDigit(c) == c \in Range(Digits)

DigitValue(c) == (CHOOSE i \in DOMAIN Digits : Digits[i] = c) - 1

AllDigits(s) == s # <<>> /\ \A i \in DOMAIN s : IsDigit(s[i])

RECURSIVE Decimal(_)
Decimal(s) ==
    IF s = <<>> THEN 0
    ELSE 10 * Decimal(SubSeq(s, 1, Len(s) - 1)) + DigitValue(s[Len(s)])

\* A conversion that puts zero where the text is no number.
to_numeric_zero(cell) ==
    CASE cell.t = "num" -> cell
      [] cell.t = "str" ->
            LET negative == cell.s # <<>> /\ Head(cell.s) = "-"
                digits == IF negative THEN Tail(cell.s) ELSE cell.s
            IN  IF AllDigits(digits)
                THEN Num(IF negative THEN 0 - Decimal(digits) ELSE Decimal(digits))
                ELSE Num(0)
      [] OTHER -> Num(0)

\* pd.to_numeric(..., errors="coerce") on one cell: a number stays, a text
\* of digits with an optional sign is read, anything else becomes a null.
to_numeric(cell) ==
    CASE cell.t = "num" -> cell
      [] cell.t = "str" ->
            LET negative == cell.s # <<>> /\ Head(cell.s) = "-"
                digits == IF negative THEN Tail(cell.s) ELSE cell.s
            IN  IF AllDigits(digits)
                THEN Num(IF negative THEN 0 - Decimal(digits) ELSE Decimal(digits))
                ELSE NaN
      [] OTHER -> NaN

\* "%Y-%m-%d %H:%M:%S", "d" standing for a digit.
TimeFormat == <<"d", "d", "d", "d", "-", "d", "d", "-", "d", "d", " ",
                "d", "d", ":", "d", "d", ":", "d", "d">>

MatchesFormat(s) ==
    /\ Len(s) = Len(TimeFormat)
    /\ \A i \in DOMAIN s :
          IF TimeFormat[i] = "d" THEN IsDigit(s[i]) ELSE s[i] = TimeFormat[i]

DaysIn(year, month) ==
    IF month \in {4, 6, 9, 11} THEN 30
    ELSE IF month # 2 THEN 31
    ELSE IF year % 4 = 0 /\ (year % 100 # 0 \/ year % 400 = 0) THEN 29
    ELSE 28

\* datetime.strptime: the datetime, or a null where it raises ValueError.
strptime(s) ==
    IF /\ MatchesFormat(s)
       /\ LET year == Decimal(SubSeq(s, 1, 4))
              month == Decimal(SubSeq(s, 6, 7))
              day == Decimal(SubSeq(s, 9, 10))
              hour == Decimal(SubSeq(s, 12, 13))
              minute == Decimal(SubSeq(s, 15, 16))
              second == Decimal(SubSeq(s, 18, 19))
          IN  /\ year >= 1
              /\ month \in 1..12
              /\ day \in 1..DaysIn(year, month)
              /\ hour <= 23
              /\ minute <= 59
              /\ second <= 59
    THEN Datetime(s)
    ELSE NaN

\* validate_time_string: None on TypeError (not a text) or ValueError.
validate_time_string(cell) == IF cell.t = "str" THEN strptime(cell.s) ELSE NaN

\* The columns transform.py reads, in the order of the data-frame.
Columns == <<"game_id", "review", "review_score", "last_timestamp",
             "playtime_at_review", "full_playtime">>

GoodTime == <<"2", "0", "1", "9", "-", "0", "2", "-", "2", "3", " ",
              "1", "2", ":", "1", "3", ":", "1", "0">>

BadTime == <<"2", "0", "1", "9", "-", "0", "2", "-", "3", "0", " ",
             "1", "2", ":", "1", "3", ":", "1", "0">>

BaseRow ==
    [game_id |-> Num(1), review |-> Str(<<"a">>), review_score |-> Str(<<"1">>),
     last_timestamp |-> Str(GoodTime), playtime_at_review |-> Str(<<"2">>),
     full_playtime |-> Str(<<"3">>)]

\* The cells a raw row may hold in place of BaseRow's, one column at a time.
Variants ==
    [game_id |-> {Num(2), NaN},
     review |-> {Str(<<"b">>), NaN},
     review_score |-> {Str(<<"-", "1">>), Str(<<"0">>), Str(<<"x">>), NaN},
     last_timestamp |-> {Str(BadTime), NaN},
     playtime_at_review |-> {Str(<<"-", "1">>), Str(<<"0">>), Str(<<"1">>),
                             Num(3), Str(<<"4">>), Str(<<"x">>)},
     full_playtime |-> {Str(<<"-", "1">>), Str(<<"2">>), Num(4), Str(<<>>)}]

RawRows ==
    {BaseRow} \cup
    UNION {{[BaseRow EXCEPT ![c] = v] : v \in Variants[c]} : c \in Range(Columns)}

SeqsUpTo(S, n) == UNION {[1..k -> S] : k \in 0..n}

\* DataFrame([]): no row and no column.
NoColumns == [cols |-> <<>>, rows |-> <<>>]

\* The data-frames handed to the normalizer: of raw rows, or DataFrame([]).
RawFrames ==
    {NoColumns} \cup {[cols |-> Columns, rows |-> s] : s \in SeqsUpTo(RawRows, MaxRows)}

\* What a call gives back: a data-frame (with what it printed), or an
\* exception it let through.
Returned(df) == [raised |-> "none", df |-> df, printed |-> <<>>]

Raised(error) == [raised |-> error, df |-> NoColumns, printed |-> <<>>]

HasColumns(df, columns) == columns \subseteq Range(df.cols)

\* The data-frame with these rows in place of its own.
WithRows(df, rows) == [df EXCEPT !.rows = rows]

\* df.drop(columns=...): the columns leave every row.
DropColumns(df, columns) ==
    [cols |-> SelectSeq(df.cols, LAMBDA c : c \notin columns),
     rows |-> [i \in DOMAIN df.rows |->
                  [c \in Range(df.cols) \ columns |-> df.rows[i][c]]]]

\* The elements of s at the indexes in I, in order.
RECURSIVE Take(_, _)
Take(s, I) ==
    IF s = <<>> THEN <<>>
    ELSE LET front == Take(SubSeq(s, 1, Len(s) - 1), I)
         IN  IF Len(s) \in I THEN Append(front, s[Len(s)]) ELSE front

\* columns_to_numeric
NumericColumns == <<"review_score", "playtime_at_review", "full_playtime">>

\* One turn of the loop: to_numeric on the column, then dropna(subset=[column]).
CoerceColumn(df, column) ==
    WithRows(df, SelectSeq([i \in DOMAIN df.rows |->
                               [df.rows[i] EXCEPT ![column] = to_numeric(@)]],
                           LAMBDA r : r[column] # NaN))

RECURSIVE CoerceColumns(_, _)
CoerceColumns(df, columns) ==
    IF columns = <<>> THEN df
    ELSE CoerceColumns(CoerceColumn(df, Head(columns)), Tail(columns))

\* change_column_types: reading a column the frame lacks raises KeyError.
change_column_types(df) ==
    IF ~HasColumns(df, Range(NumericColumns) \cup {"last_timestamp"})
    THEN Raised("KeyError")
    ELSE LET numeric == CoerceColumns(df, NumericColumns)
         IN  Returned(WithRows(numeric, [i \in DOMAIN numeric.rows |->
                 [numeric.rows[i] EXCEPT !["last_timestamp"] = validate_time_string(@)]]))

\* The columns holding a null in some row.
NullColumns(df) ==
    {c \in Range(df.cols) : \E i \in DOMAIN df.rows : df.rows[i][c] = NaN}

\* remove_empty_rows: dropna(axis=1, how="any") drops the columns that hold
\* a null; every row stays.
remove_empty_rows(df) == DropColumns(df, NullColumns(df))

NonNegative(cell) == cell.t = "num" /\ cell.n >= 0

\* A filter that lets through whoever did not play.
PlayedAtLeastZero(cell) == cell.t = "num" /\ cell.n >= 0

\* reviews_df["playtime_at_review"] > 1
PlayedTheGame(cell) == cell.t = "num" /\ cell.n > 1

\* correct_cell_values: the three >= 0 filters, then > 1, then
\* playtime_at_review <= full_playtime.
correct_cell_values(df) ==
    IF ~HasColumns(df, Range(NumericColumns))
    THEN Raised("KeyError")
    ELSE Returned(WithRows(df, SelectSeq(df.rows, LAMBDA r :
            /\ \A i \in DOMAIN NumericColumns : NonNegative(r[NumericColumns[i]])
            /\ PlayedTheGame(r["playtime_at_review"])
            /\ r["playtime_at_review"].n <= r["full_playtime"].n)))

\* subset= of drop_duplicates
DuplicateSubset == <<"review", "game_id", "playtime_at_review", "full_playtime">>

SameOn(columns, r1, r2) == \A c \in columns : r1[c] = r2[c]

\* drop_duplicates keeps the first row of every group.
FirstOccurrences(rows, columns) ==
    {i \in DOMAIN rows : \A j \in 1..(i - 1) : ~SameOn(columns, rows[j], rows[i])}

remove_duplicate_reviews(df) ==
    IF ~HasColumns(df, Range(DuplicateSubset))
    THEN Raised("KeyError")
    ELSE Returned(WithRows(df,
            Take(df.rows, FirstOccurrences(df.rows, Range(DuplicateSubset)))))

\* The items the rows of a data-frame name.
GamesOf(df) ==
    IF "game_id" \in Range(df.cols)
    THEN {df.rows[i]["game_id"].n : i \in DOMAIN df.rows}
    ELSE {}

\* What correct_playtime may meet: a directory that answers or raises
\* psycopg2.Error, and each item's release, in seconds before the call.
Envs(df) ==
    [connection : {"ok", "Error"}, time_now : {0},
     release_date : [GamesOf(df) -> {0 - 9000, 0 - 10800}]]

\* get_release_date: the directory's answer, cached per item.
get_release_date(env, game_id) == env.release_date[game_id]

\* playtime <= (time_now - release_date).total_seconds() / 3600
WithinMaximum(cell, env, game_id) ==
    cell.n * SecondsPerHour <= env.time_now - get_release_date(env, game_id)

\* correct_playtime: both playtime filters; on psycopg2.Error the except
\* branch prints and the frame it was given is returned.
correct_playtime(df, env) ==
    IF env.connection = "Error"
    THEN [raised |-> "none", df |-> df, printed |-> <<"Connection Error">>]
    ELSE IF ~HasColumns(df, {"game_id", "playtime_at_review", "full_playtime"})
    THEN Raised("KeyError")
    ELSE Returned(WithRows(df, SelectSeq(df.rows, LAMBDA r :
            /\ WithinMaximum(r["playtime_at_review"], env, r["game_id"].n)
            /\ WithinMaximum(r["full_playtime"], env, r["game_id"].n))))

NoError == [at |-> "none", kind |-> "none"]

\* One function of transform.py called on the frame the last one returned.
NormStep(stage, next, result) ==
    /\ norm_pc = stage
    /\ norm_in' = norm_df
    /\ IF result.raised = "none"
       THEN /\ norm_pc' = next
            /\ norm_df' = result.df
            /\ norm_error' = NoError
       ELSE /\ norm_pc' = "raised"
            /\ norm_df' = norm_df
            /\ norm_error' = [at |-> stage, kind |-> result.raised]
    /\ UNCHANGED <<fetchVars, loadVars, jobVars, scoreVars, fkVars>>

ChangeColumnTypes ==
    /\ NormStep("change_column_types", "remove_empty_rows", change_column_types(norm_df))
    /\ UNCHANGED norm_env

RemoveEmptyRows ==
    /\ NormStep("remove_empty_rows", "correct_cell_values",
                Returned(remove_empty_rows(norm_df)))
    /\ UNCHANGED norm_env

CorrectCellValues ==
    /\ NormStep("correct_cell_values", "remove_duplicate_reviews",
                correct_cell_values(norm_df))
    /\ UNCHANGED norm_env

RemoveDuplicateReviews ==
    /\ NormStep("remove_duplicate_reviews", "correct_playtime",
                remove_duplicate_reviews(norm_df))
    /\ UNCHANGED norm_env

CorrectPlaytime ==
    \E env \in Envs(norm_df) :
        /\ NormStep("correct_playtime", "done", correct_playtime(norm_df, env))
        /\ norm_env' = env

NoEnv == [connection |-> "none", time_now |-> 0, release_date |-> <<>>]

NoNorm ==
    /\ norm_pc = "idle"
    /\ norm_df = NoColumns
    /\ norm_in = NoColumns
    /\ norm_env = NoEnv
    /\ norm_error = NoError

(* ============================= pipeline.py ============================ *)

MaxFetched == 1

\* INTERVAL '2 WEEKS', in seconds.
TwoWeeks == 1209600

\* The number of %s in the INSERT statement.
InsertArity == 6

\* The game table: items with distinct app_ids, each with its release in
\* seconds before the run.
GameTables ==
    {t \in SeqsUpTo([app_id : {1, 2}, release_date : {0 - 9000, 0 - 10800, 0 - 1728000}], 2) :
        \A i, j \in DOMAIN t : t[i].app_id = t[j].app_id => i = j}

\* SELECT app_id FROM game WHERE release_date BETWEEN NOW() - INTERVAL
\* '2 WEEKS' AND NOW(): the rows of the table in the window, in table order.
SelectRecentGames(table) ==
    SelectSeq(table, LAMBDA g : 0 - TwoWeeks <= g.release_date /\ g.release_date <= 0)

\* A lookup that answers an empty directory with an empty list.
get_game_ids_or_empty(rows) ==
    [raised |-> "none", value |-> [i \in DOMAIN rows |-> rows[i].app_id]]

\* extract.get_game_ids on the rows fetchall() gave.
get_game_ids(rows) ==
    IF rows # <<>>
    THEN [raised |-> "none", value |-> [i \in DOMAIN rows |-> rows[i].app_id]]
    ELSE [raised |-> "GamesNotFound", value |-> <<>>]

\* GamesNotFound's message.
GamesNotFoundMessage == "No new games were found in the last 2 weeks!"

\* A run that goes on to fetch whatever the lookup did.
AfterGetGameIdsGoOn(result) ==
    [pc |-> "get_all_reviews", report |-> <<>>, game_ids |-> result.value]

\* Line 17 and the except GamesNotFound branch: the message is printed and
\* the run is over, or the run goes on with the ids.
AfterGetGameIds(result) ==
    IF result.raised = "GamesNotFound"
    THEN [pc |-> "done", report |-> <<GamesNotFoundMessage>>, game_ids |-> <<>>]
    ELSE [pc |-> "get_all_reviews", report |-> <<>>, game_ids |-> result.value]

\* An exception no except branch of the run names ends it with a traceback.
Traceback(error) == <<"Traceback", error>>

\* The data-frames get_all_reviews may return for the ids, with the columns
\* transform.py reads: DataFrame([]) when no review was fetched.
FetchedFrames(ids) ==
    {NoColumns} \cup
    {[cols |-> Columns, rows |-> s] :
        s \in SeqsUpTo({r \in RawRows : r.game_id.t = "num"
                                         /\ r.game_id.n \in Range(ids)},
                       MaxFetched) \ {<<>>}}

\* transform_reviews: the functions of transform.py in the order of its
\* __main__.
transform_reviews(df, env) ==
    LET typed == change_column_types(df)
    IN  IF typed.raised # "none" THEN typed
        ELSE LET valued == correct_cell_values(remove_empty_rows(typed.df))
             IN  IF valued.raised # "none" THEN valued
                 ELSE LET unique == remove_duplicate_reviews(valued.df)
                      IN  IF unique.raised # "none" THEN unique
                          ELSE correct_playtime(unique.df, env)

(* --------------------------- sentiment.py ----------------------------- *)

MaxTextLen == 3

\* The characters of the review texts: an upper-case and a lower-case
\* letter, a punctuation mark, the space and the line feed.
Letters == {"I", "t", ",", " ", "\n"}

\* str.lower() on the letters above.
Lower(word) == [i \in DOMAIN word |-> IF word[i] = "I" THEN "i" ELSE word[i]]

\* stopwords.words('english'), the words over the letters above.
StopWords == {<<"i">>, <<"t">>, <<"i", "t">>}

\* punctuation_and_more, its one-character entries.
Punctuation ==
    {"/", ".", ",", "@", "#", "+", "=", "_", "-", ")", "(", "*", "^", "%", "$",
     "~", "`", "'", "\"", "<", ">", "1", "0", "2", "3", "4", "5", "6", "7", "8",
     "9", ";", ":", "|", "{", "}", "[", "]"}

\* str.split(" "): the pieces between the spaces, the empty ones included.
RECURSIVE Split(_)
Split(s) ==
    IF s = <<>> THEN << <<>> >>
    ELSE LET rest == Split(Tail(s))
         IN  IF Head(s) = " "
             THEN << <<>> >> \o rest
             ELSE << <<Head(s)>> \o Head(rest) >> \o Tail(rest)

\* " ".join(words).
RECURSIVE Join(_)
Join(words) ==
    IF words = <<>> THEN <<>>
    ELSE IF Len(words) = 1 THEN words[1]
    ELSE words[1] \o <<" ">> \o Join(Tail(words))

\* The review without the punctuation, each line feed a space, and without
\* the words whose lower-case form is a stop word.
remove_stopwords(review, stop_words, punctuation) ==
    LET stripped == SelectSeq(review, LAMBDA letter : letter \notin punctuation)
        replaced == [i \in DOMAIN stripped |->
                        IF stripped[i] = "\n" THEN " " ELSE stripped[i]]
    IN  Join(SelectSeq(Split(replaced), LAMBDA word : Lower(word) \notin stop_words))

\* reviews_df[column] = cells: a new column goes last, an old one is
\* overwritten in place.
WithColumn(df, column, cells) ==
    [cols |-> IF column \in Range(df.cols) THEN df.cols ELSE Append(df.cols, column),
     rows |-> [i \in DOMAIN df.rows |->
                  [c \in Range(df.cols) \cup {column} |->
                      IF c = column THEN cells[i] ELSE df.rows[i][c]]]]

\* A cleaning that writes the clean text over the review.
isolate_overwriting_review(df) ==
    IF "review" \notin Range(df.cols) THEN Raised("KeyError")
    ELSE IF \E i \in DOMAIN df.rows : df.rows[i]["review"].t # "str"
    THEN Raised("TypeError")
    ELSE LET clean == [i \in DOMAIN df.rows |->
                 Str(remove_stopwords(df.rows[i]["review"].s, StopWords, Punctuation))]
         IN  Returned(WithColumn(WithColumn(df, "review", clean), "clean_review", clean))

\* isolate_non_stop_words: the clean_review column, made of the review
\* column; a review that is no text cannot be iterated.
isolate_non_stop_words(df) ==
    IF "review" \notin Range(df.cols) THEN Raised("KeyError")
    ELSE IF \E i \in DOMAIN df.rows : df.rows[i]["review"].t # "str"
    THEN Raised("TypeError")
    ELSE Returned(WithColumn(df, "clean_review", [i \in DOMAIN df.rows |->
             Str(remove_stopwords(df.rows[i]["review"].s, StopWords, Punctuation))]))

\* The compound scores, in ten-thousandths, at which (score + 1) / 2 * 5
\* lies half-way between two tenths and round(..., 1) gives the upper one:
\* the tie is settled by the binary value of the quotient.
TiesRoundedUp ==
    {0 - 9800, 0 - 9400, 0 - 8600, 0 - 8200, 0 - 7400, 0 - 7000, 0 - 5800,
     0 - 4600, 0 - 4200, 0 - 3800, 0 - 3000, 0 - 2600, 0 - 2200, 0 - 1800,
     0 - 200, 600, 1000, 1400, 3400, 5000, 5400, 5800, 6200, 6600, 7800, 9000,
     9800}

\* A rescaling that cuts the digits after the first decimal off.
RescaleTruncated(score) == (score + 10000) \div 400

\* round((score + 1) / 2 * 5, 1), with score in ten-thousandths (the
\* analyser rounds the compound score to four decimals) and the result in
\* tenths.
RescaleSentiment(score) ==
    LET q == (score + 10000) \div 400
        r == (score + 10000) % 400
    IN  IF r < 200 THEN q
        ELSE IF r > 200 THEN q + 1
        ELSE IF score \in TiesRoundedUp THEN q + 1 ELSE q

\* The texts polarity_scores is called with.
CleanTexts(df) ==
    IF "review" \in Range(df.cols)
    THEN {remove_stopwords(df.rows[i]["review"].s, StopWords, Punctuation) :
              i \in {j \in DOMAIN df.rows : df.rows[j]["review"].t = "str"}}
    ELSE {}

\* vader.polarity_scores(text)["compound"]: a score for each text, here
\* one of the given scores.
Lexicons(df, scores) == [CleanTexts(df) -> scores]

\* get_sentiment_values: the compound score of clean_review, rescaled, in
\* the sentiment column; clean_review leaves the frame.
get_sentiment_values(df, lexicon) ==
    IF "clean_review" \notin Range(df.cols) THEN Raised("KeyError")
    ELSE Returned(DropColumns(
             WithColumn(df, "sentiment", [i \in DOMAIN df.rows |->
                 Num(RescaleSentiment(lexicon[df.rows[i]["clean_review"].s]))]),
             {"clean_review"}))

\* One function of sentiment.py called on the frame the last one returned.
ScoreStep(stage, next, result) ==
    /\ score_pc = stage
    /\ IF result.raised = "none"
       THEN /\ score_pc' = next
            /\ score_df' = result.df
            /\ score_error' = NoError
       ELSE /\ score_pc' = "raised"
            /\ score_df' = score_df
            /\ score_error' = [at |-> stage, kind |-> result.raised]
    /\ UNCHANGED <<score_in, score_lexicon>>
    /\ UNCHANGED <<fetchVars, loadVars, normVars, jobVars, fkVars>>

IsolateNonStopWords ==
    ScoreStep("isolate_non_stop_words", "get_sentiment_values",
              isolate_non_stop_words(score_df))

GetSentimentValues ==
    ScoreStep("get_sentiment_values", "done",
              get_sentiment_values(score_df, score_lexicon))

\* The row of transform.py's frames with this review text.
ReviewRow(text) == [BaseRow EXCEPT !["review"] = Str(text)]

\* Some review texts: two with the same clean text, one with a line feed,
\* one of stop words and punctuation only.
SomeTexts == {<<"t", "I">>, <<"t", ",", "I">>, <<"t", "\n", "t">>, <<"I", "t", ",">>}

\* Some compound scores: the ends, the middle, and two ties that
\* round(..., 1) settles differently.
SomeScores == {0 - 10000, 0, 8000, 1000, 200, 10000}

\* The frames of these columns handed to the scoring stage, with the scores
\* the analyser gives their texts: one review of any text, one review of any
\* score, several reviews, and frames without a review text.
ScoreInputs(columns) ==
    LET frame(rows) == [cols |-> columns, rows |-> rows]
        AnyText == {frame(<<ReviewRow(text)>>) : text \in SeqsUpTo(Letters, MaxTextLen)}
        Several == {frame(s) : s \in SeqsUpTo({ReviewRow(text) : text \in SomeTexts},
                                              MaxRows)}
    IN  UNION {{[df |-> df, lexicon |-> lexicon] : lexicon \in Lexicons(df, SomeScores)} :
                  df \in AnyText \cup Several}
        \cup {[df |-> frame(<<BaseRow>>), lexicon |-> lexicon] :
                 lexicon \in Lexicons(frame(<<BaseRow>>), (0 - 10000)..10000)}
        \cup {[df |-> df, lexicon |-> <<>>] :
                 df \in {NoColumns, DropColumns(frame(<<BaseRow>>), {"review"}),
                         frame(<<[BaseRow EXCEPT !["review"] = NaN]>>)}}

NoScore ==
    /\ score_pc = "idle"
    /\ score_in = NoColumns
    /\ score_df = NoColumns
    /\ score_lexicon = <<>>
    /\ score_error = NoError

\* get_sentiment_per_game groups by game_id; its result is not used.
get_sentiment_per_game(df) ==
    IF "game_id" \notin Range(df.cols) THEN Raised("KeyError") ELSE Returned(df)

\* remove_unnamed: the column the csv round trip adds leaves the frame.
remove_unnamed(df) == DropColumns(df, {"Unnamed: 0"})

\* load.get_game_ids: a cached id, or None: execute() is given app_id where
\* it takes a sequence and game_id[["game_id"]] indexes with a list, both
\* TypeError, caught, before the cache is written.
load_get_game_ids(cache, app_id) ==
    IF app_id \in DOMAIN cache THEN cache[app_id] ELSE NaN

\* get_game_ids_foreign_key_values: the lookup on every row, with an empty
\* cache, then remove_empty_rows.
get_game_ids_foreign_key_values(df) ==
    IF "game_id" \notin Range(df.cols)
    THEN Raised("KeyError")
    ELSE Returned(remove_empty_rows(WithRows(df, [i \in DOMAIN df.rows |->
            [df.rows[i] EXCEPT !["game_id"] = load_get_game_ids(<<>>, @.n)]])))

\* reviews_df.values: the cells of each row, in column order.
Values(df) ==
    [i \in DOMAIN df.rows |-> [k \in DOMAIN df.cols |-> df.rows[i][df.cols[k]]]]

\* execute_batch fills the %s of the statement from each tuple: too few
\* values raise IndexError, too many TypeError.
Mogrify(data) ==
    IF \E i \in DOMAIN data : Len(data[i]) < InsertArity THEN "IndexError"
    ELSE IF \E i \in DOMAIN data : Len(data[i]) > InsertArity THEN "TypeError"
    ELSE "none"

\* Lines 16-17: the connection, then the ids of the recent items.
RunGetGameIds ==
    /\ job_pc = "get_game_ids"
    /\ \/ /\ job_pc' = "done"
          /\ job_report' = Append(job_report, "Connection Error")
          /\ job_trace' = Append(job_trace, "get_db_connection")
          /\ UNCHANGED job_ids
       \/ LET after == AfterGetGameIds(get_game_ids(SelectRecentGames(job_games)))
          IN  /\ job_pc' = after.pc
              /\ job_report' = job_report \o after.report
              /\ job_ids' = after.game_ids
              /\ job_trace' = Append(job_trace, "get_game_ids")
    /\ UNCHANGED <<job_games, job_df, job_swallowed, job_store>>
    /\ UNCHANGED <<fetchVars, loadVars, normVars, scoreVars, fkVars>>

\* Line 19: the data-frame of the fetched reviews, or the KeyError a worker
\* raised on a response lacking a field.
RunGetAllReviews ==
    /\ job_pc = "get_all_reviews"
    /\ job_trace' = Append(job_trace, "get_all_reviews")
    /\ \/ /\ job_pc' = "done"
          /\ job_report' = job_report \o Traceback("KeyError")
          /\ UNCHANGED job_df
       \/ \E df \in FetchedFrames(job_ids) :
              /\ job_pc' = "transform_reviews"
              /\ job_df' = df
              /\ UNCHANGED job_report
    /\ UNCHANGED <<job_games, job_ids, job_swallowed, job_store>>
    /\ UNCHANGED <<fetchVars, loadVars, normVars, scoreVars, fkVars>>

\* What correct_playtime meets in this run: the releases of the game table.
JobEnvs ==
    {[connection |-> c, time_now |-> 0,
      release_date |-> [g \in {job_games[i].app_id : i \in DOMAIN job_games} |->
          job_games[CHOOSE i \in DOMAIN job_games : job_games[i].app_id = g].release_date]] :
        c \in {"ok", "Error"}}

\* Line 25.
RunTransformReviews ==
    /\ job_pc = "transform_reviews"
    /\ job_trace' = Append(job_trace, "transform_reviews")
    /\ \E env \in JobEnvs :
          LET result == transform_reviews(job_df, env)
          IN  IF result.raised = "none"
              THEN /\ job_pc' = "get_sentiment_values"
                   /\ job_df' = result.df
                   /\ job_report' = job_report \o result.printed
                   /\ job_swallowed' = (job_swallowed \/ result.printed # <<>>)
              ELSE /\ job_pc' = "done"
                   /\ job_report' = job_report \o Traceback(result.raised)
                   /\ UNCHANGED <<job_df, job_swallowed>>
    /\ UNCHANGED <<job_games, job_ids, job_store>>
    /\ UNCHANGED <<fetchVars, loadVars, normVars, scoreVars, fkVars>>

\* Lines 31-34.
RunGetSentimentValues ==
    /\ job_pc = "get_sentiment_values"
    /\ job_trace' = Append(job_trace, "get_sentiment_values")
    /\ \E lexicon \in Lexicons(job_df, {0 - 10000, 1000}) :
          LET isolated == isolate_non_stop_words(job_df)
              scored == IF isolated.raised # "none" THEN isolated
                        ELSE get_sentiment_values(isolated.df, lexicon)
              grouped == IF scored.raised # "none" THEN scored
                         ELSE get_sentiment_per_game(scored.df)
          IN  IF grouped.raised = "none"
              THEN /\ job_pc' = "move_reviews_to_db"
                   /\ job_df' = remove_unnamed(scored.df)
                   /\ UNCHANGED job_report
              ELSE /\ job_pc' = "done"
                   /\ job_report' = job_report \o Traceback(grouped.raised)
                   /\ UNCHANGED job_df
    /\ UNCHANGED <<job_games, job_ids, job_swallowed, job_store>>
    /\ UNCHANGED <<fetchVars, loadVars, normVars, scoreVars, fkVars>>

\* Lines 40-44: the foreign keys, then the insert of tuple(row[1:]) of
\* every row and the commit.
RunMoveReviewsToDb ==
    /\ job_pc = "move_reviews_to_db"
    /\ job_pc' = "done"
    /\ job_trace' = Append(job_trace, "move_reviews_to_db")
    /\ \/ /\ job_report' = Append(job_report, "Connection Error")
          /\ UNCHANGED <<job_df, job_store>>
       \/ LET keyed == get_game_ids_foreign_key_values(job_df)
              data == DataToInsert(Values(keyed.df))
              error == IF keyed.raised # "none" THEN keyed.raised ELSE Mogrify(data)
          IN  IF error = "none"
              THEN /\ job_df' = keyed.df
                   /\ job_store' = job_store \o data
                   /\ job_report' = Append(job_report, "Total time")
              ELSE /\ job_report' = job_report \o Traceback(error)
                   /\ UNCHANGED <<job_df, job_store>>
    /\ UNCHANGED <<job_games, job_ids, job_swallowed>>
    /\ UNCHANGED <<fetchVars, loadVars, normVars, scoreVars, fkVars>>

NoJob ==
    /\ job_pc = "idle"
    /\ job_games = <<>>
    /\ job_ids = <<>>
    /\ job_df = NoColumns
    /\ job_trace = <<>>
    /\ job_report = <<>>
    /\ job_swallowed = FALSE
    /\ job_store = <<>>

(* ------------------------------ load.py --------------------------------- *)

\* str(app_id) of a natural number.
RECURSIVE StrOfInt(_)
StrOfInt(n) ==
    IF n < 10 THEN <<Digits[n + 1]>>
    ELSE Append(StrOfInt(n \div 10), Digits[(n % 10) + 1])

\* The external ids of the reviews handed to the loader.
AppIds == 1..NumItems

\* What fetchone() gives for an id: the row of the game table, None when the
\* table has no such app_id; or the query raises a psycopg2.Error.
GameRows(app_id) ==
    {[kind |-> "row", game_id |-> 10 + app_id],
     [kind |-> "None", game_id |-> 0],
     [kind |-> "Error", game_id |-> 0]}

\* What the loader meets: a driver that raises TypeError on a parameter that
\* is no sequence (psycopg2) or one that takes it (the MagicMock of
\* test_load.py), and the game table.
LoadEnvs ==
    {[bare_parameter |-> b, game |-> g] :
        b \in {"TypeError", "bound"},
        g \in {f \in [AppIds -> UNION {GameRows(a) : a \in AppIds}] :
                  \A a \in AppIds : f[a] \in GameRows(a)}}

\* One operation on a connection: which connection, whether it was closed
\* already, for which id, and how the operation ended.
Op(on, op, app_id, outcome) ==
    [conn |-> on, op |-> op, app_id |-> app_id, state |-> fk_conn[on],
     outcome |-> outcome]

\* row[key]: a row of RealDictCursor is a dict, and a list is no key of a
\* dict; None has no items.
GetItem(row, key) ==
    IF row.kind # "row" \/ key.t = "list" THEN [raised |-> "TypeError", value |-> NaN]
    ELSE [raised |-> "none", value |-> Num(row[key.name])]

\* get_game_ids(conn, app_id, cache): what it returns (None as a null), the
\* cache and the connection it leaves, and the operations it issued.
load_get_game_ids_call(app_id, cache, env) ==
    LET key == StrOfInt(app_id)
        left(value, c, state, ops) ==
            [value |-> value, cache |-> c, state |-> state, ops |-> ops]
        cur == Op("load", "cursor", app_id, "ok")
        row == env.game[app_id]
        game_id == GetItem(row, [t |-> "list", name |-> "game_id"])
        closing == <<cur, Op("load", "execute", app_id, "ok"),
                     Op("load", "fetchone", app_id, "ok"),
                     Op("load", "close", app_id, "ok")>>
    IN  IF key \in DOMAIN cache
        THEN left(cache[key], cache, fk_conn["load"], <<>>)
        ELSE IF fk_conn["load"] = "closed"
        THEN left(NaN, cache, "closed",
                  <<Op("load", "cursor", app_id, "InterfaceError")>>)
        ELSE IF env.bare_parameter = "TypeError"
        THEN left(NaN, cache, "open",
                  <<cur, Op("load", "execute", app_id, "TypeError")>>)
        ELSE IF row.kind = "Error"
        THEN left(NaN, cache, "open", <<cur, Op("load", "execute", app_id, "Error")>>)
        ELSE IF game_id.raised # "none"
        THEN left(NaN, cache, "closed", closing)
        ELSE left(game_id.value, [k \in DOMAIN cache \cup {key} |->
                                     IF k = key THEN game_id.value ELSE cache[k]],
                  "closed", closing)

\* Line 16: the loader's own connection, or the Error of a failed connect.
LoadGetDbConnection ==
    /\ fk_pc = "get_db_connection"
    /\ \/ /\ fk_pc' = "apply"
          /\ fk_conn' = [fk_conn EXCEPT !["load"] = "open"]
          /\ UNCHANGED fk_error
       \/ /\ fk_pc' = "raised"
          /\ fk_error' = "Error"
          /\ UNCHANGED fk_conn
    /\ UNCHANGED <<fk_in, fk_df, fk_values, fk_cache, fk_env, fk_ops, fk_sent, fk_store>>
    /\ UNCHANGED <<fetchVars, loadVars, normVars, jobVars, scoreVars>>

\* Line 18, reviews_df["game_id"] of a frame without that column.
LoadNoGameIdColumn ==
    /\ fk_pc = "apply"
    /\ "game_id" \notin Range(fk_df.cols)
    /\ fk_pc' = "raised"
    /\ fk_error' = "KeyError"
    /\ UNCHANGED <<fk_in, fk_df, fk_values, fk_cache, fk_conn, fk_env, fk_ops, fk_sent,
                   fk_store>>
    /\ UNCHANGED <<fetchVars, loadVars, normVars, jobVars, scoreVars>>

\* Lines 18-19: get_game_ids on the game_id of the next row.
LoadGetGameIds ==
    /\ fk_pc = "apply"
    /\ "game_id" \in Range(fk_df.cols)
    /\ Len(fk_values) < Len(fk_df.rows)
    /\ LET call == load_get_game_ids_call(fk_df.rows[Len(fk_values) + 1]["game_id"].n,
                                          fk_cache, fk_env)
       IN  /\ fk_values' = Append(fk_values, call.value)
           /\ fk_cache' = call.cache
           /\ fk_conn' = [fk_conn EXCEPT !["load"] = call.state]
           /\ fk_ops' = fk_ops \o call.ops
    /\ UNCHANGED <<fk_pc, fk_in, fk_df, fk_env, fk_sent, fk_error, fk_store>>
    /\ UNCHANGED <<fetchVars, loadVars, normVars, jobVars, scoreVars>>

\* Lines 18-21: the column of the returned values, then remove_empty_rows.
LoadRemoveEmptyRows ==
    /\ fk_pc = "apply"
    /\ "game_id" \in Range(fk_df.cols)
    /\ Len(fk_values) = Len(fk_df.rows)
    /\ fk_pc' = "move_reviews_to_db"
    /\ fk_df' = remove_empty_rows(WithColumn(fk_df, "game_id", fk_values))
    /\ UNCHANGED <<fk_in, fk_values, fk_cache, fk_conn, fk_env, fk_ops, fk_sent, fk_error,
                   fk_store>>
    /\ UNCHANGED <<fetchVars, loadVars, normVars, jobVars, scoreVars>>

\* move_reviews_to_db on the run's connection: tuple(row[1:]) of every row,
\* execute_batch, commit, close; an exception of execute_batch leaves the
\* function before the commit.
LoadMoveReviewsToDb ==
    /\ fk_pc = "move_reviews_to_db"
    /\ LET data == DataToInsert(Values(fk_df))
           error == IF fk_conn["pipeline"] = "closed" THEN "InterfaceError"
                    ELSE Mogrify(data)
       IN  /\ fk_sent' = data
           /\ fk_error' = error
           /\ IF error = "InterfaceError"
              THEN /\ fk_pc' = "raised"
                   /\ fk_ops' = Append(fk_ops, Op("pipeline", "cursor", 0, error))
                   /\ UNCHANGED <<fk_store, fk_conn>>
              ELSE IF error # "none"
              THEN /\ fk_pc' = "raised"
                   /\ fk_ops' = fk_ops \o <<Op("pipeline", "cursor", 0, "ok"),
                                            Op("pipeline", "execute_batch", 0, error)>>
                   /\ UNCHANGED <<fk_store, fk_conn>>
              ELSE /\ fk_pc' = "done"
                   /\ fk_ops' = fk_ops \o <<Op("pipeline", "cursor", 0, "ok"),
                                            Op("pipeline", "execute_batch", 0, "ok"),
                                            Op("pipeline", "commit", 0, "ok"),
                                            Op("pipeline", "close", 0, "ok")>>
                   /\ fk_store' = fk_store \o data
                   /\ fk_conn' = [fk_conn EXCEPT !["pipeline"] = "closed"]
    /\ UNCHANGED <<fk_in, fk_df, fk_values, fk_cache, fk_env>>
    /\ UNCHANGED <<fetchVars, loadVars, normVars, jobVars, scoreVars>>

\* The columns of the review table's insert, as the scored frame names them.
StoreColumns ==
    <<"game_id", "review", "review_score", "last_timestamp", "playtime_at_review",
      "sentiment">>

\* A scored review of the item with this external id.
ScoredRow(app_id, text) ==
    [game_id |-> Num(app_id), review |-> Str(text), review_score |-> Num(1),
     last_timestamp |-> Datetime(GoodTime), playtime_at_review |-> Num(2),
     full_playtime |-> Num(3), sentiment |-> Num(25)]

\* The frames handed to the loader: scored reviews with the columns of the
\* insert, or with those of transform.py and the sentiment, or DataFrame([]).
ScoredFrames ==
    LET rows(cols) == {[c \in Range(cols) |-> ScoredRow(a, text)[c]] :
                          a \in AppIds, text \in {<<"a">>, <<"b">>}}
        frames(cols) == {[cols |-> cols, rows |-> s] : s \in SeqsUpTo(rows(cols), MaxRows)}
    IN  {NoColumns} \cup frames(StoreColumns) \cup frames(Append(Columns, "sentiment"))

\* get_all_reviews has returned: p.map blocks until every worker's result
\* is there, and the with block ends the pool.
FetchFinished == phase = "done"

\* Lines 19-40 of pipeline.py: once get_all_reviews has returned, its
\* reviews are transformed and scored, here each into one scored row, and
\* handed to the loader; a run without a review ends before (line 25).
RunLoader ==
    /\ fk_pc = "get_all_reviews"
    /\ FetchFinished
    /\ returned_reviews # <<>>
    /\ fk_pc' = "get_db_connection"
    /\ fk_in' = [cols |-> StoreColumns,
                 rows |-> [i \in DOMAIN returned_reviews |->
                     [c \in Range(StoreColumns) |->
                         ScoredRow(returned_reviews[i].game_id, <<"a">>)[c]]]]
    /\ fk_df' = fk_in'
    /\ UNCHANGED <<fk_values, fk_cache, fk_conn, fk_env, fk_ops, fk_sent, fk_error,
                   fk_store>>
    /\ UNCHANGED <<fetchVars, loadVars, normVars, jobVars, scoreVars>>

NoLoadEnv == [bare_parameter |-> "none", game |-> <<>>]

NoFk ==
    /\ fk_pc = "idle"
    /\ fk_in = NoColumns
    /\ fk_df = NoColumns
    /\ fk_values = <<>>
    /\ fk_cache = <<>>
    /\ fk_conn = [load |-> "none", pipeline |-> "none"]
    /\ fk_env = NoLoadEnv
    /\ fk_ops = <<>>
    /\ fk_sent = <<>>
    /\ fk_error = "none"
    /\ fk_store = <<>>

(* ------------------------------ specifications ------------------------------ *)

NoFetch ==
    /\ game_ids = <<>>
    /\ source = [cursors |-> {Sentinel}, maxLen |-> 0]
    /\ InitWorkers

LoadIdle ==
    /\ store = EmptyBag
    /\ conn = [closed |-> TRUE, txn |-> "idle"]
    /\ pending = <<>>
    /\ reviews_df = <<>>
    /\ load_pc = "idle"
    /\ load_error = "none"
    /\ loads = 0
    /\ store_before = EmptyBag
    /\ prev_load = [batch |-> <<>>, ok |-> FALSE, store_after |-> EmptyBag]

NoLoad == LoadIdle /\ unique_key = FALSE

\* An empty review table, with or without a unique natural key.
InitLoad ==
    /\ NoFetch /\ LoadIdle /\ unique_key \in BOOLEAN /\ NoNorm /\ NoJob
    /\ NoScore /\ NoFk

NextLoad == StartLoad \/ MoveReviewsToDb \/ ReportError \/ ProcessExit

SpecLoad == InitLoad /\ [][NextLoad]_vars

\* One get_game_reviews call against a source with NumCursors cursors.
InitPaginator ==
    /\ NoScore
    /\ NoFk
    /\ game_ids \in {<<g>> : g \in 1..NumItems}
    /\ source = [cursors |-> SourceCursors(NumCursors), maxLen |-> MaxPageLen]
    /\ InitWorkers
    /\ NoLoad
    /\ NoNorm
    /\ NoJob

\* get_all_reviews over NumItems items, not in ascending order.
InitFetch ==
    /\ NoScore
    /\ NoFk
    /\ game_ids = [i \in 1..NumItems |-> NumItems + 1 - i]
    /\ source = [cursors |-> {Sentinel, <<" ">>, <<"+">>}, maxLen |-> 1]
    /\ InitWorkers
    /\ NoLoad
    /\ NoNorm
    /\ NoJob

NextFetch ==
    \/ \E w \in Workers : GetGameReviewsStart(w)
    \/ \E w \in Workers : GetGameReviewsPage(w)
    \/ \E w \in Workers : GetGameReviewsExit(w)
    \/ GetAllReviewsReturns
    \/ GetAllReviewsRaises

SpecPaginator == InitPaginator /\ [][NextFetch]_vars

\* A running call takes its next step: every request has a timeout.
SpecPaginatorFair == SpecPaginator /\ WF_vars(WorkerNext)

SpecFetch == InitFetch /\ [][NextFetch]_vars

\* The scoring stage: isolate_non_stop_words, then get_sentiment_values.
InitScorer ==
    /\ NoFetch
    /\ NoLoad
    /\ NoNorm
    /\ NoJob
    /\ NoFk
    /\ score_pc = "isolate_non_stop_words"
    /\ \E input \in ScoreInputs(Columns) :
          /\ score_in = input.df
          /\ score_df = input.df
          /\ score_lexicon = input.lexicon
    /\ score_error = NoError

NextScorer ==
    \/ IsolateNonStopWords
    \/ GetSentimentValues

SpecScorer == InitScorer /\ [][NextScorer]_vars

\* Lines 40-41 of pipeline.py: the loader on a scored frame, the run's
\* connection open since line 16.
InitLoader ==
    /\ NoFetch
    /\ NoLoad
    /\ NoNorm
    /\ NoJob
    /\ NoScore
    /\ fk_pc = "get_db_connection"
    /\ fk_in \in ScoredFrames
    /\ fk_df = fk_in
    /\ fk_values = <<>>
    /\ fk_cache = <<>>
    /\ fk_conn = [load |-> "none", pipeline |-> "open"]
    /\ fk_env \in LoadEnvs
    /\ fk_ops = <<>>
    /\ fk_sent = <<>>
    /\ fk_error = "none"
    /\ fk_store = <<>>

NextLoader ==
    \/ LoadGetDbConnection
    \/ LoadNoGameIdColumn
    \/ LoadGetGameIds
    \/ LoadRemoveEmptyRows
    \/ LoadMoveReviewsToDb

SpecLoader == InitLoader /\ [][NextLoader]_vars

\* One run from get_all_reviews to the loader: the workers of the pool
\* against a source with two cursors, the main process waiting in p.map.
InitRun ==
    /\ game_ids = [i \in 1..NumItems |-> NumItems + 1 - i]
    /\ source = [cursors |-> {Sentinel, <<" ">>}, maxLen |-> 1]
    /\ InitWorkers
    /\ NoLoad
    /\ NoNorm
    /\ NoJob
    /\ NoScore
    /\ fk_pc = "get_all_reviews"
    /\ fk_in = NoColumns
    /\ fk_df = NoColumns
    /\ fk_values = <<>>
    /\ fk_cache = <<>>
    /\ fk_conn = [load |-> "none", pipeline |-> "open"]
    /\ fk_env \in {env \in LoadEnvs : \A a \in AppIds : env.game[a].kind = "row"}
    /\ fk_ops = <<>>
    /\ fk_sent = <<>>
    /\ fk_error = "none"
    /\ fk_store = <<>>

NextRun ==
    \/ NextFetch
    \/ RunLoader
    \/ LoadGetDbConnection
    \/ LoadGetGameIds
    \/ LoadRemoveEmptyRows
    \/ LoadMoveReviewsToDb

SpecRun == InitRun /\ [][NextRun]_vars

\* The functions of transform.py, in the order of its __main__, on a
\* data-frame of at most MaxRows raw rows.
InitNormalizer ==
    /\ NoScore
    /\ NoFk
    /\ NoFetch
    /\ NoLoad
    /\ NoJob
    /\ norm_pc = "change_column_types"
    /\ norm_df \in RawFrames
    /\ norm_in = NoColumns
    /\ norm_env = NoEnv
    /\ norm_error = NoError

NextNormalizer ==
    \/ ChangeColumnTypes
    \/ RemoveEmptyRows
    \/ CorrectCellValues
    \/ RemoveDuplicateReviews
    \/ CorrectPlaytime

SpecNormalizer == InitNormalizer /\ [][NextNormalizer]_vars

\* One run of pipeline.py against a game table.
InitPipeline ==
    /\ NoScore
    /\ NoFk
    /\ NoFetch
    /\ NoLoad
    /\ NoNorm
    /\ job_pc = "get_game_ids"
    /\ job_games \in GameTables
    /\ job_ids = <<>>
    /\ job_df = NoColumns
    /\ job_trace = <<>>
    /\ job_report = <<>>
    /\ job_swallowed = FALSE
    /\ job_store = <<>>

NextPipeline ==
    \/ RunGetGameIds
    \/ RunGetAllReviews
    \/ RunTransformReviews
    \/ RunGetSentimentValues
    \/ RunMoveReviewsToDb

SpecPipeline == InitPipeline /\ [][NextPipeline]_vars

(* ======================= claims: the paginator ======================== *)

\* The item's call met a timeout: of the count request, or of a page request
\* (the error marker).
TimedOut(w) == count_outcome[w].kind = "timeout" \/ api_response[w].kind = "error"

\* The item's call met a response lacking a field.
Malformed(w) == count_outcome[w].kind = "malformed" \/ api_response[w].kind = "raise"

\* The last page named a next cursor that had been requested already.
RepeatedCursor(w) ==
    /\ api_response[w].kind = "page"
    /\ api_response[w].next_cursor \in Range(cursor_list[w])

\* C1: against a source with finitely many cursor values (one that repeats a
\* cursor or never advances included) every get_game_reviews call ends, and
\* it sends at most one page request per cursor value.
C1_Terminates ==
    /\ [](\A w \in Workers :
            Len(requests[w]) <= Cardinality(source.cursors \cup {Sentinel}))
    /\ <>(\A w \in Workers : Terminated(w))

\* A call that returned after requesting every cursor value of the source.
C1_Witness ==
    \E w \in Workers :
        /\ pc[w] = "returned"
        /\ Len(requests[w]) = Cardinality(source.cursors)
        /\ RepeatedCursor(w)

\* C2: within one call no cursor is sent to the review-page endpoint twice.
C2_NoCursorTwice == \A w \in Workers : NoDuplicates(requests[w])

\* Three requests made, the cursors " " and "+" among them, and the source
\* repeating a cursor.
C2_Witness ==
    \E w \in Workers :
        /\ Len(requests[w]) >= 3
        /\ {<<" ">>, <<"+">>} \subseteq Range(cursor_list[w])
        /\ RepeatedCursor(w)

\* C3: when a page names a next cursor already seen, the call has returned
\* with that page as its last request, and what it returns is exactly the
\* pages received before that one.
C3_RepeatStops ==
    \A w \in Workers :
        RepeatedCursor(w) =>
            /\ pc[w] = "returned"
            /\ Len(requests[w]) = Len(received[w])
            /\ all_reviews[w] = SubSeq(received[w], 1, Len(received[w]) - 1)

\* A repeated cursor on a third, non-empty page.
C3_Witness ==
    \E w \in Workers :
        /\ RepeatedCursor(w)
        /\ Len(received[w]) >= 3
        /\ api_response[w].reviews # <<>>

\* C4: a count of zero, or a count request that fails or times out, makes
\* get_game_reviews return an empty list without any page request.
C4_NothingToFetch ==
    \A w \in Workers :
        (\/ count_outcome[w] = [kind |-> "ok", total_reviews |-> 0]
         \/ count_outcome[w].kind \in {"timeout", "failed"})
            => /\ pc[w] = "returned"
               /\ all_reviews[w] = <<>>
               /\ requests[w] = <<>>

(* ===================== claims: the orchestrator ======================= *)

\* The rows of the merged result that carry the item's game_id, in order.
Contribution(w) == SelectSeq(returned_reviews, LAMBDA r : r.game_id = game_ids[w])

RECURSIVE TotalReviews(_)
TotalReviews(ws) ==
    IF ws = {} THEN 0
    ELSE LET w == CHOOSE x \in ws : TRUE
         IN Len(Flatten(all_reviews[w])) + TotalReviews(ws \ {w})

\* C5 as stated: an item that met a timeout contributes no review at all.
C5_FailingItemContributesNothing ==
    phase = "done" =>
        \A w \in Workers :
            Contribution(w) = IF TimedOut(w) THEN <<>> ELSE Flatten(all_reviews[w])

\* C5, amended: a timeout never makes an item's call or the batch raise, and
\* in the merged result the item that met it contributes exactly the pages
\* it had received before, every other item what its call returned.
C5_TimeoutIsolated ==
    /\ \A w \in Workers : TimedOut(w) => pc[w] # "raised"
    /\ phase = "raised" => \E w \in Workers : pc[w] = "raised" /\ ~TimedOut(w)
    /\ phase = "done" =>
        \A w \in Workers :
            Contribution(w) = IF TimedOut(w) THEN Flatten(received[w])
                              ELSE Flatten(all_reviews[w])

\* Merged: one item timed out after a page, another fetched undisturbed.
C5_Witness ==
    /\ phase = "done"
    /\ \E w1, w2 \in Workers :
        /\ api_response[w1].kind = "error" /\ received[w1] # <<>>
        /\ ~TimedOut(w2) /\ all_reviews[w2] # <<>>

\* C6: a malformed response is recovered locally: neither the item's call
\* nor the batch raises.
C6_MalformedRecovered ==
    \A w \in Workers : Malformed(w) => pc[w] # "raised" /\ phase # "raised"

\* C7: whatever the scheduling of the workers, the merged result holds, for
\* every item, exactly the reviews its call returned, in their order, and
\* nothing else.
C7_MergeExact ==
    phase = "done" =>
        /\ \A w \in Workers : Contribution(w) = Flatten(all_reviews[w])
        /\ Len(returned_reviews) = TotalReviews(Workers)

\* Merged: two items with two pages each.
C7_Witness ==
    /\ phase = "done"
    /\ \E w1, w2 \in Workers :
        w1 # w2 /\ Len(all_reviews[w1]) >= 2 /\ Len(all_reviews[w2]) >= 2

(* ========================= claims: the loader ========================= *)

\* C8: loading the batch the load before it committed leaves the review
\* table as that load left it, and raises no conflict error.
C8_IdempotentLoad ==
    (/\ load_pc \in {"returned", "raised"}
     /\ prev_load.ok
     /\ prev_load.batch = reviews_df)
        => /\ store = prev_load.store_after
           /\ load_error # "UniqueViolation"

\* C9: no two rows of the review table share (game_id, review_text,
\* playtime_at_review).
C9_UniqueTriple ==
    \A r1, r2 \in BagToSet(store) :
        NaturalKey(r1) = NaturalKey(r2) => r1 = r2 /\ CopiesIn(r1, store) = 1

\* C10: once move_reviews_to_db has let a database error through, the review
\* table is as it was before the load, the transaction is rolled back and
\* no inserted row is pending on the connection.
C10_ErrorRollsBack ==
    load_pc \in {"raised", "reported"} =>
        /\ store = store_before
        /\ conn.txn = "idle"
        /\ pending = <<>>

(* ======================= claims: the normalizer ======================= *)

\* The row's playtime is more than the hours from its item's release to the
\* call of correct_playtime.
Implausible(r, env) ==
    r["playtime_at_review"].n * SecondsPerHour
        > env.time_now - env.release_date[r["game_id"].n]

\* C11: whenever correct_playtime returns a data-frame, no row of it has a
\* playtime above the hours elapsed since its item's release.
C11_ImplausiblePlaytimeAbsent ==
    (norm_pc = "done" /\ HasColumns(norm_df, {"game_id", "playtime_at_review"}))
        => \A i \in DOMAIN norm_df.rows : ~Implausible(norm_df.rows[i], norm_env)

\* The last function called returned, and it was this one.
AfterChangeColumnTypes == norm_pc = "remove_empty_rows"
AfterRemoveEmptyRows == norm_pc = "correct_cell_values"
AfterCorrectCellValues == norm_pc = "remove_duplicate_reviews"
AfterRemoveDuplicateReviews == norm_pc = "correct_playtime"

C16_KeepsPlayedRows ==
    AfterCorrectCellValues =>
        \A i \in DOMAIN norm_in.rows :
            LET r == norm_in.rows[i]
            IN  (r["review_score"].n >= 0 /\ r["playtime_at_review"].n >= 1)
                    => \E j \in DOMAIN norm_df.rows : norm_df.rows[j] = r

\* C17: no two rows of the data-frame remove_duplicate_reviews returns agree
\* on review, game_id and playtime_at_review.
C17_NoTwoRowsShareTriple ==
    AfterRemoveDuplicateReviews =>
        \A i, j \in DOMAIN norm_df.rows :
            SameOn({"review", "game_id", "playtime_at_review"},
                   norm_df.rows[i], norm_df.rows[j]) => i = j

\* The row holds no null.
Complete(r) == \A c \in DOMAIN r : r[c] # NaN

\* C18: remove_empty_rows returns the rows without a null, each with all
\* the columns it had, and no row with a null.
C18_RowsWithNullRemoved ==
    AfterRemoveEmptyRows => norm_df = WithRows(norm_in, SelectSeq(norm_in.rows, Complete))

\* The text of the cell is a number: digits with an optional sign.
Parses(cell) ==
    \/ cell.t = "num"
    \/ /\ cell.t = "str"
       /\ AllDigits(IF cell.s # <<>> /\ Head(cell.s) = "-" THEN Tail(cell.s) ELSE cell.s)

AllParse(r) == \A i \in DOMAIN NumericColumns : Parses(r[NumericColumns[i]])

\* The number a cell that parses stands for.
NumberOf(cell) ==
    IF cell.t = "num" THEN cell.n
    ELSE IF Head(cell.s) = "-" THEN 0 - Decimal(Tail(cell.s))
    ELSE Decimal(cell.s)

C12_DirectoryErrorAborts ==
    job_swallowed =>
        /\ job_pc = "done"
        /\ "get_sentiment_values" \notin Range(job_trace)
        /\ "move_reviews_to_db" \notin Range(job_trace)
        /\ job_store = <<>>

\* The item was released in the two weeks before the run.
Recent(g) == 0 - TwoWeeks <= g.release_date /\ g.release_date <= 0

\* C13: once extract.get_game_ids was called, GamesNotFound was raised
\* exactly when the game table holds no recent item; otherwise game_ids are
\* the app_ids of the recent items, in the order of the table.
C13_GamesNotFoundExactlyWhenEmpty ==
    "get_game_ids" \in Range(job_trace) =>
        LET recent == SelectSeq(job_games, Recent)
        IN  /\ GamesNotFoundMessage \in Range(job_report) <=> recent = <<>>
            /\ recent # <<>> =>
                  /\ Len(job_ids) = Len(recent)
                  /\ \A i \in DOMAIN recent : job_ids[i] = recent[i].app_id

\* get_game_ids returned two ids in the order of the table, not ascending.
C13_Witness ==
    /\ "get_game_ids" \in Range(job_trace)
    /\ job_ids = <<2, 1>>

\* C14: a run that finds no recent item is over after get_game_ids: the
\* GamesNotFound message is all it reports, and it fetched, normalized,
\* scored and stored nothing.
C14_NoEligibleItemsEndsRun ==
    ("get_game_ids" \in Range(job_trace) /\ \A i \in DOMAIN job_games : ~Recent(job_games[i]))
        => /\ job_pc = "done"
           /\ job_report = <<GamesNotFoundMessage>>
           /\ job_trace = <<"get_game_ids">>
           /\ job_store = <<>>

\* A run against a table whose only items are older than two weeks ended
\* after get_game_ids.
C14_Witness ==
    /\ job_pc = "done"
    /\ job_games # <<>>
    /\ \A i \in DOMAIN job_games : ~Recent(job_games[i])
    /\ job_trace = <<"get_game_ids">>

\* C20: a run whose fetch gave no review, or whose normalization left no
\* row, and that met no connection error, ends normally with nothing stored.
C20_EmptyReviewSetCompletes ==
    (/\ job_pc = "done"
     /\ "transform_reviews" \in Range(job_trace)
     /\ job_df.rows = <<>>
     /\ "Connection Error" \notin Range(job_report))
        => /\ job_report = <<"Total time">>
           /\ job_store = <<>>

(* ======================== claims: the scorer =========================== *)

\* The scoring stage has returned its frame.
Scored == score_pc = "done"

\* The compound score the analyser gave the text of row i.
CompoundOf(i) ==
    score_lexicon[remove_stopwords(score_in.rows[i]["review"].s, StopWords, Punctuation)]

\* C21: for every compound score raw in [-1, 1] (here in ten-thousandths),
\* the sentiment get_sentiment_values assigns is a tenth in [0.0, 5.0], the
\* one nearest to (raw + 1) / 2 * 5, and the same for the same raw score;
\* raw 0 gives 2.5, raw 0.8 gives 4.5, raw -1 gives 0.0, raw 1 gives 5.0, and
\* of the ties raw 0.1 gives 2.8 and raw 0.02 gives 2.5, as round(..., 1)
\* does on the binary values.
C21_SentimentIsRescaledCompound ==
    Scored =>
        \A i \in DOMAIN score_df.rows :
            LET raw == CompoundOf(i)
                sentiment == score_df.rows[i]["sentiment"]
            IN  /\ sentiment.t = "num"
                /\ sentiment.n \in 0..50
                /\ 400 * sentiment.n - (raw + 10000) \in (0 - 200)..200
                /\ raw = 0 => sentiment.n = 25
                /\ raw = 8000 => sentiment.n = 45
                /\ raw = 0 - 10000 => sentiment.n = 0
                /\ raw = 10000 => sentiment.n = 50
                /\ raw = 1000 => sentiment.n = 28
                /\ raw = 200 => sentiment.n = 25
                /\ \A j \in DOMAIN score_df.rows :
                      CompoundOf(j) = raw => score_df.rows[j]["sentiment"] = sentiment

\* A review of compound score 0.8 was given 4.5, and another one of a score
\* between two tenths was given the nearer one.
C21_Witness ==
    /\ Scored
    /\ \E i \in DOMAIN score_df.rows :
          CompoundOf(i) = 8000 /\ score_df.rows[i]["sentiment"] = Num(45)

\* C22: the frame the scoring stage returns has the rows of its input, as
\* many and in the same order, every input column with the cell it had (the
\* review text included), and one more column, sentiment; the clean text is
\* not among its columns.
C22_ScoringAddsOnlySentiment ==
    Scored =>
        /\ Len(score_df.rows) = Len(score_in.rows)
        /\ score_df.cols = Append(score_in.cols, "sentiment")
        /\ "clean_review" \notin Range(score_df.cols)
        /\ \A i \in DOMAIN score_df.rows :
              /\ DOMAIN score_df.rows[i] = Range(score_df.cols)
              /\ \A c \in Range(score_in.cols) :
                    score_df.rows[i][c] = score_in.rows[i][c]

\* Two reviews were scored, one of them on a clean text that differs from
\* its review.
C22_Witness ==
    /\ Scored
    /\ Len(score_in.rows) = 2
    /\ \E i \in DOMAIN score_in.rows :
          /\ remove_stopwords(score_in.rows[i]["review"].s, StopWords, Punctuation)
                # score_in.rows[i]["review"].s
          /\ score_df.rows[i]["review"] = score_in.rows[i]["review"]

(* ======================== claims: the loader =========================== *)

\* The external id of row k of the frame handed to the loader.
AppIdOf(k) == fk_in.rows[k]["game_id"].n

\* The game table has a row for the id.
InDirectory(app_id) == fk_env.game[app_id].kind = "row"

\* The loader connected and met a frame with the game_id column.
LoaderRan == fk_conn["load"] # "none" /\ "game_id" \in Range(fk_in.cols)

\* C23: for an external id that has a row in the game table, get_game_ids
\* returns the game_id of that row, not None.
C23_ExistingIdResolved ==
    \A k \in DOMAIN fk_values :
        InDirectory(AppIdOf(k)) =>
            fk_values[k] = Num(fk_env.game[AppIdOf(k)].game_id)

\* The loader has ended: move_reviews_to_db returned or an exception left it.
LoaderEnded == fk_pc \in {"done", "raised"}

\* The six fields the review table takes of input row k, the internal id
\* first.
PersistedReview(k) ==
    <<Num(fk_env.game[AppIdOf(k)].game_id), fk_in.rows[k]["review"],
      fk_in.rows[k]["review_score"], fk_in.rows[k]["last_timestamp"],
      fk_in.rows[k]["playtime_at_review"], fk_in.rows[k]["sentiment"]>>

\* C24: when ids do not resolve (no row in the game table, or the query
\* fails), the load is not fatal: no exception leaves the loader, the rows
\* of those ids are not stored, and every row of a resolved id is stored
\* with its fields.
C24_UnresolvedRowsExcludedOnly ==
    (LoaderEnded /\ LoaderRan) =>
        /\ fk_error = "none"
        /\ Len(fk_store) = Cardinality({k \in DOMAIN fk_in.rows : InDirectory(AppIdOf(k))})
        /\ \A k \in DOMAIN fk_in.rows :
              InDirectory(AppIdOf(k)) <=> PersistedReview(k) \in Range(fk_store)

\* C25: every tuple move_reviews_to_db hands to execute_batch is the six
\* fields (internal id, text, upvotes, created at, playtime, sentiment) of
\* one scored review, the internal id of its item first.
C25_SentRowsAreSixFields ==
    \A i \in DOMAIN fk_sent :
        /\ Len(fk_sent[i]) = 6
        /\ \E k \in DOMAIN fk_in.rows :
              InDirectory(AppIdOf(k)) /\ fk_sent[i] = PersistedReview(k)

\* The operations get_game_ids issued for the id.
LookupOps(app_id, op) ==
    {i \in DOMAIN fk_ops :
        fk_ops[i].conn = "load" /\ fk_ops[i].app_id = app_id /\ fk_ops[i].op = op}

\* C28: the loader's get_game_ids runs its query at most once for each
\* external id, whether the id resolves or not; the later rows of an id are
\* served from the cache, without an operation on the connection, with the
\* value the first one got.
C28_OneLookupPerId ==
    /\ \A a \in AppIds :
          /\ Cardinality(LookupOps(a, "execute")) <= 1
          /\ Cardinality(LookupOps(a, "cursor")) <= 1
    /\ \A j, k \in DOMAIN fk_values :
          (j < k /\ AppIdOf(j) = AppIdOf(k)) =>
              /\ StrOfInt(AppIdOf(k)) \in DOMAIN fk_cache
              /\ fk_values[k] = fk_values[j]

StopMarker(w) ==
    \/ api_response[w].kind = "error"
    \/ api_response[w].kind = "page" /\ api_response[w].reviews = <<>>

\* The pages received before the last response.
PagesBefore(w) ==
    IF api_response[w].kind = "error" THEN received[w]
    ELSE SubSeq(received[w], 1, Len(received[w]) - 1)

\* C26: after an error marker or a page without reviews the call sends no
\* further page request, it does not raise, and the list it returns holds
\* exactly the pages received before that response (none if it was the
\* first).
C26_StopsOnErrorOrEmptyPage ==
    /\ [][\A w \in Workers : StopMarker(w) => requests'[w] = requests[w]]_vars
    /\ [](\A w \in Workers :
            StopMarker(w) =>
                /\ \/ pc[w] = "returned"
                   \/ pc[w] = "loop" /\ cursor[w] \in Range(cursor_list[w])
                /\ all_reviews[w] = PagesBefore(w))

\* A call that returned on a page without reviews, after two pages with
\* reviews.
C26_Witness ==
    \E w \in Workers :
        /\ pc[w] = "returned"
        /\ api_response[w].kind = "page"
        /\ api_response[w].reviews = <<>>
        /\ Len(all_reviews[w]) = 2

\* C27: the page requests of a call are sent one at a time; the first one
\* carries the cursor "*", every later one the next_cursor of the page the
\* request before it received, each encoded by quote_plus.
C27_CursorsChained ==
    [][\A w \in Workers :
          requests'[w] # requests[w] =>
              LET used == cursor_list'[w][Len(cursor_list'[w])]
              IN  /\ requests'[w] = Append(requests[w], quote_plus(used))
                  /\ Len(cursor_list'[w]) = Len(requests'[w])
                  /\ IF requests[w] = <<>>
                     THEN used = <<"*">>
                     ELSE /\ api_response[w].kind = "page"
                          /\ used = api_response[w].next_cursor]_vars

\* Three requests were sent, the second and the third with cursors the
\* source had returned.
C27_Witness ==
    \E w \in Workers :
        /\ Len(requests[w]) = 3
        /\ cursor_list[w][2] # cursor_list[w][3]
        /\ requests[w][1] = <<"%", "2", "A">>

(* ========================= claims: the run ============================= *)

\* The loader has touched its cache or one of the connections.
LoaderAccessed ==
    fk_ops # <<>> \/ fk_cache # <<>> \/ fk_conn["load"] # "none" \/ fk_values # <<>>

\* C29: the loader touches its cache and the connections only when every
\* fetch worker has ended and get_all_reviews has returned; no step of a
\* worker happens once the loader has started, and the loader's operations
\* come one after the other.
C29_LoaderAfterFetch ==
    /\ [](LoaderAccessed => (phase = "done" /\ \A w \in Workers : Terminated(w)))
    /\ [][/\ LoaderAccessed' => UNCHANGED fetchVars
          /\ Len(fk_ops') >= Len(fk_ops)
          /\ SubSeq(fk_ops', 1, Len(fk_ops)) = fk_ops]_vars

\* Two workers fetched reviews, and the loader looked both ids up and
\* called the batch insert.
C29_Witness ==
    /\ \A w \in Workers : pc[w] = "returned" /\ all_reviews[w] # <<>>
    /\ Len(fk_values) >= 2
    /\ \E i \in DOMAIN fk_ops : fk_ops[i].op = "execute_batch"

====
